---- MODULE Spec2Model ----
(***************************************************************************)
(* Minebot bridge: the expiring containers (data_types/timed.py), the      *)
(* websocket listener (websocket/listener.py and its authenticate action)  *)
(* and the punishment scheduler (helper/punishment.py, the timeout         *)
(* command and the command-executed event).                                *)
(*                                                                         *)
(* Three specifications, one per component, over disjoint variables:       *)
(*   SpecTimed  - one TimedSet / TimedDict, clock in seconds               *)
(*   SpecWs     - the listener with its session store and server names     *)
(*   SpecPunish - temporary-action records, lightbulb tasks, task registry *)
(***************************************************************************)
EXTENDS Integers, Sequences, FiniteSets, TLC

(***************************************************************************)
(* Part 1.  TimedSet / TimedDict                                           *)
(***************************************************************************)

\* ---- program constants -------------------------------------------------
TTL == 10
CleanupThreshold == 1000
CleanupRatio == 2
HeapSizeLimit == 100000
SmallHeapLimit == 1000

\* ---- bounds of the model -----------------------------------------------
MaxTime == 12
MaxHeap == 3
MaxSeq == 4
EarlyTime == 1

Keys == {"k1", "k2"}
Vals == {"v1", "v2"}
ExtraTimes == {0, 2}
Absent == -1
NoVal == "none"

VARIABLES
    kind,          \* "set" (TimedSet) or "dict" (TimedDict)
    lazy,          \* lazy_expiration
    now,           \* time.monotonic(), whole seconds
    items,         \* _items / _entries: key -> insertion timestamp, or Absent
    vals,          \* TimedDict: key -> stored value
    order,         \* iteration order of the dict _items / _entries
    heap,          \* _expiration_heap: set of <<expiry, sequence, key>>
    seqCtr,        \* _sequence_counter
    expiredCount,  \* _expired_items_count / _expired_entries_count
    nextSweep,     \* eager mode: time at which the worker thread wakes next
    lastOp,        \* history: the last call that stamped the key: "add" | "extend" | "none"
    obs            \* result of the last caller operation

timedVars == <<kind, lazy, now, items, vals, order, heap, seqCtr, expiredCount,
               nextSweep, lastOp, obs>>

Min2(a, b) == IF a < b THEN a ELSE b
Max2(a, b) == IF a > b THEN a ELSE b

\* check_interval = min(expiration_time / 10, 1.0)
CheckInterval == Min2(TTL \div 10, 1)

\* tuple order of the heap entries (expiry first, then the sequence number)
HeapLess(e, f) == e[1] < f[1] \/ (e[1] = f[1] /\ e[2] < f[2])

HeapTop(h) == CHOOSE e \in h : \A f \in h : e = f \/ HeapLess(e, f)

\* SweepDeletes without the timestamp test: every popped entry deletes its key
SweepDeletes_AnyPop(its, k, cur) == its[k] # Absent

\* the deletion test of the sweep: the recorded insertion time is at least TTL old
SweepDeletes(its, k, cur) == its[k] # Absent /\ its[k] <= cur - TTL

RECURSIVE PopExpired(_, _, _, _)
PopExpired(its, h, cnt, cur) ==
    IF h = {} \/ HeapTop(h)[1] > cur
    THEN [items |-> its, heap |-> h, count |-> cnt]
    ELSE LET e == HeapTop(h)
             its2 == IF SweepDeletes(its, e[3], cur)
                     THEN [its EXCEPT ![e[3]] = Absent]
                     ELSE its
         IN PopExpired(its2, h \ {e}, cnt + 1, cur)

KeepPresent(ord, its) == SelectSeq(ord, LAMBDA k : its[k] # Absent)

\* the entry a rebuild from scratch writes for a live key
RebuiltExpiry(ts) == ts + TTL

RECURSIVE FreshEntries(_, _, _, _, _)
FreshEntries(ord, its, seq, cur, acc) ==
    IF ord = <<>>
    THEN [heap |-> acc, seq |-> seq]
    ELSE LET k == Head(ord)
             expiry == RebuiltExpiry(its[k])
         IN IF expiry > cur
            THEN FreshEntries(Tail(ord), its, seq + 1, cur, acc \cup {<<expiry, seq + 1, k>>})
            ELSE FreshEntries(Tail(ord), its, seq, cur, acc)

RebuildHeap(its, ord, h, seq, cnt, cur) ==
    LET heap_size == Cardinality(h)
        items_size == Len(ord)
        adaptive == Max2(CleanupThreshold, Min2(items_size \div 10, HeapSizeLimit \div 10))
    IN IF cnt <= adaptive /\ heap_size <= items_size * CleanupRatio
       THEN [heap |-> h, seq |-> seq, count |-> cnt]
       ELSE IF heap_size < SmallHeapLimit \/ heap_size > items_size * 3
                 \/ heap_size > HeapSizeLimit
            THEN LET r == FreshEntries(ord, its, seq, cur, {})
                 IN [heap |-> r.heap, seq |-> r.seq, count |-> 0]
            ELSE [heap |-> {e \in h : its[e[3]] # Absent}, seq |-> seq, count |-> 0]

\* _remove_expired_items / _remove_expired_entries
RemoveExpired(its, ord, h, seq, cnt, cur) ==
    IF h = {}
    THEN [items |-> its, order |-> ord, heap |-> h, seq |-> seq, count |-> cnt]
    ELSE LET p == PopExpired(its, h, cnt, cur)
             ord2 == KeepPresent(ord, p.items)
             r == IF p.count > CleanupThreshold
                     /\ Cardinality(p.heap) > Len(ord2) * CleanupRatio
                  THEN RebuildHeap(p.items, ord2, p.heap, seq, p.count, cur)
                  ELSE [heap |-> p.heap, seq |-> seq, count |-> p.count]
         IN [items |-> p.items, order |-> ord2, heap |-> r.heap, seq |-> r.seq,
             count |-> r.count]

\* _check_expiration_if_lazy
CheckExpirationIfLazy(its, ord, h, seq, cnt, cur) ==
    IF lazy
    THEN RemoveExpired(its, ord, h, seq, cnt, cur)
    ELSE [items |-> its, order |-> ord, heap |-> h, seq |-> seq, count |-> cnt]

NoObs == [op |-> "none", key |-> "none", result |-> FALSE, value |-> NoVal, ts |-> Absent]

\* the stored values of the keys that are still present
LiveVals(vs, its) == [k \in Keys |-> IF its[k] = Absent THEN NoVal ELSE vs[k]]

TimedInit ==
    /\ kind \in {"set", "dict"}
    /\ lazy \in BOOLEAN
    /\ now = 0
    /\ items = [k \in Keys |-> Absent]
    /\ vals = [k \in Keys |-> NoVal]
    /\ order = <<>>
    /\ heap = {}
    /\ seqCtr = 0
    /\ expiredCount \in {0, CleanupThreshold + 1}
    /\ nextSweep = 0
    /\ lastOp = [k \in Keys |-> "none"]
    /\ obs = NoObs

\* TimedSet.add (one item) and TimedDict.__setitem__
Add(k, v) ==
    /\ Cardinality(heap) < MaxHeap
    /\ seqCtr < MaxSeq
    /\ v \in (IF kind = "set" THEN {NoVal} ELSE Vals)
    /\ items' = [items EXCEPT ![k] = now]
    /\ vals' = [vals EXCEPT ![k] = v]
    /\ order' = IF items[k] = Absent THEN Append(order, k) ELSE order
    /\ seqCtr' = seqCtr + 1
    /\ heap' = heap \cup {<<now + TTL, seqCtr + 1, k>>}
    /\ lastOp' = [lastOp EXCEPT ![k] = "add"]
    /\ obs' = [NoObs EXCEPT !.op = "add", !.key = k]
    /\ UNCHANGED <<kind, lazy, now, expiredCount, nextSweep>>

\* TimedSet.remove of a collection of items
Remove(ks) ==
    /\ kind = "set"
    /\ LET gone == {k \in ks : items[k] # Absent}
           its2 == [k \in Keys |-> IF k \in gone THEN Absent ELSE items[k]]
           ord2 == KeepPresent(order, its2)
           removed_count == Cardinality(gone)
           r == IF removed_count > Min2(100, Len(ord2) \div 10)
                THEN RebuildHeap(its2, ord2, heap, seqCtr, expiredCount, now)
                ELSE [heap |-> heap, seq |-> seqCtr, count |-> expiredCount]
       IN /\ items' = its2
          /\ order' = ord2
          /\ heap' = r.heap
          /\ seqCtr' = r.seq
          /\ expiredCount' = r.count
          /\ lastOp' = [k \in Keys |-> IF k \in gone THEN "none" ELSE lastOp[k]]
          /\ vals' = LiveVals(vals, its2)
          /\ obs' = [NoObs EXCEPT !.op = "remove", !.result = (removed_count > 0)]
    /\ UNCHANGED <<kind, lazy, now, nextSweep>>

\* TimedDict.__delitem__
DelItem(k) ==
    /\ kind = "dict"
    /\ items[k] # Absent
    /\ items' = [items EXCEPT ![k] = Absent]
    /\ order' = KeepPresent(order, items')
    /\ lastOp' = [lastOp EXCEPT ![k] = "none"]
    /\ vals' = LiveVals(vals, items')
    /\ obs' = [NoObs EXCEPT !.op = "remove", !.key = k, !.result = TRUE]
    /\ UNCHANGED <<kind, lazy, now, heap, seqCtr, expiredCount, nextSweep>>

\* clear
Clear ==
    /\ items' = [k \in Keys |-> Absent]
    /\ order' = <<>>
    /\ heap' = {}
    /\ expiredCount' = 0
    /\ seqCtr' = 0
    /\ lastOp' = [k \in Keys |-> "none"]
    /\ vals' = [k \in Keys |-> NoVal]
    /\ obs' = [NoObs EXCEPT !.op = "clear"]
    /\ UNCHANGED <<kind, lazy, now, nextSweep>>

\* contains (TimedSet.contains, TimedDict.contains / get)
Contains(k) ==
    /\ LET s == CheckExpirationIfLazy(items, order, heap, seqCtr, expiredCount, now)
       IN /\ items' = s.items
          /\ order' = s.order
          /\ heap' = s.heap
          /\ seqCtr' = s.seq
          /\ expiredCount' = s.count
          /\ lastOp' = [j \in Keys |-> IF s.items[j] = Absent THEN "none" ELSE lastOp[j]]
          /\ vals' = LiveVals(vals, s.items)
          /\ obs' = [op |-> "contains", key |-> k, result |-> (s.items[k] # Absent),
                     value |-> IF s.items[k] # Absent THEN vals[k] ELSE NoVal,
                     ts |-> items[k]]
    /\ UNCHANGED <<kind, lazy, now, nextSweep>>

\* extend
Extend(k, extra) ==
    /\ Cardinality(heap) < MaxHeap
    /\ seqCtr < MaxSeq
    /\ IF extra <= 0 \/ items[k] = Absent
       THEN /\ obs' = [NoObs EXCEPT !.op = "extend", !.key = k, !.result = FALSE]
            /\ UNCHANGED <<items, order, heap, seqCtr, expiredCount, lastOp>>
       ELSE LET its2 == [items EXCEPT ![k] = now]
                h2 == heap \cup {<<now + TTL + extra, seqCtr + 1, k>>}
                r == IF expiredCount > CleanupThreshold
                     THEN RebuildHeap(its2, order, h2, seqCtr + 1, expiredCount, now)
                     ELSE [heap |-> h2, seq |-> seqCtr + 1, count |-> expiredCount]
            IN /\ items' = its2
               /\ order' = order
               /\ heap' = r.heap
               /\ seqCtr' = r.seq
               /\ expiredCount' = r.count
               /\ lastOp' = [lastOp EXCEPT ![k] = "extend"]
               /\ obs' = [NoObs EXCEPT !.op = "extend", !.key = k, !.result = TRUE]
    /\ UNCHANGED <<kind, lazy, now, vals, nextSweep>>

\* one round of the worker thread (_expire_items_periodically), eager mode only
WorkerSweep ==
    /\ ~lazy
    /\ nextSweep <= now
    /\ LET s == RemoveExpired(items, order, heap, seqCtr, expiredCount, now)
       IN /\ items' = s.items
          /\ order' = s.order
          /\ heap' = s.heap
          /\ seqCtr' = s.seq
          /\ expiredCount' = s.count
          /\ lastOp' = [j \in Keys |-> IF s.items[j] = Absent THEN "none" ELSE lastOp[j]]
          /\ vals' = LiveVals(vals, s.items)
    /\ nextSweep' = now + CheckInterval
    /\ UNCHANGED <<kind, lazy, now, obs>>

\* The instants at which callers act: the first seconds of the run, and the
\* seconds from the first possible expiry on.
Instants == (0 .. EarlyTime) \cup (TTL .. MaxTime)

NextInstant(t) == CHOOSE u \in Instants : u > t /\ \A w \in Instants : w > t => u <= w

\* The clock advances to the next instant.  In eager mode the worker has run
\* its round at the current instant, and its rounds in between find nothing
\* due (no heap entry expires strictly between the two instants).
Tick ==
    /\ now < MaxTime
    /\ lazy \/ now < nextSweep
    /\ \A e \in heap : ~(now < e[1] /\ e[1] < NextInstant(now))
    /\ now' = NextInstant(now)
    /\ obs' = NoObs
    /\ UNCHANGED <<kind, lazy, items, vals, order, heap, seqCtr, expiredCount, nextSweep,
                   lastOp>>

TimedNext ==
    \/ \E k \in Keys, v \in Vals \cup {NoVal} : Add(k, v)
    \/ \E ks \in (SUBSET Keys) \ {{}} : Remove(ks)
    \/ \E k \in Keys : DelItem(k)
    \/ Clear
    \/ \E k \in Keys : Contains(k)
    \/ \E k \in Keys, extra \in ExtraTimes : Extend(k, extra)
    \/ WorkerSweep
    \/ Tick

\* a container nobody touches (the other components' specifications)
TimedIdle == TimedInit /\ kind = "set" /\ ~lazy /\ expiredCount = 0

(***************************************************************************)
(* Part 2.  Websocket listener, session store, server-name state           *)
(***************************************************************************)

\* ---- program constant: asyncio.sleep(3), the authentication deadline ----
AuthDeadline == 3

\* ---- bounds of the model -----------------------------------------------
MaxWsTime == 4
MaxFrames == 3

Conns == {"c1", "c2"}
ServerLists == {<<"lobby">>, <<"survival">>}
Registered == {"authenticate", "player-status-check", "player-server-check",
               "command-executed"}

VARIABLES
    wsNow,                  \* event-loop time, whole seconds
    conn,                   \* per connection: the locals of handle_connection
    authenticated_client,   \* listener.authenticated_client, in dict order
    minecraft_servers,      \* MinecraftState._minecraft_servers (a list)
    online_players,         \* keys written to MinecraftState._online_players
    player_uuids,           \* pairs written to MinecraftState._player_uuids
    player_servers,         \* pairs written to MinecraftState._player_servers
    nframes,                \* number of frames read so far
    wsLast                  \* history: what the last listener step did

wsVars == <<wsNow, conn, authenticated_client, minecraft_servers, online_players,
            player_uuids, player_servers, nframes, wsLast>>

projections == <<online_players, player_uuids, player_servers>>

\* the frames a peer can send
Frame(action, json_ok, schema_ok, pw_ok, sl, raises) ==
    [action |-> action, json_ok |-> json_ok, schema_ok |-> schema_ok, pw_ok |-> pw_ok,
     server_list |-> sl, raises |-> raises]

Frames ==
    {Frame("", FALSE, FALSE, FALSE, <<>>, FALSE)}                  \* not JSON
    \cup {Frame("", TRUE, FALSE, FALSE, <<>>, FALSE)}              \* no action field
    \cup {Frame("no-such-action", TRUE, TRUE, FALSE, <<>>, FALSE)}
    \cup {Frame("authenticate", TRUE, FALSE, FALSE, <<>>, FALSE)}  \* fails AuthenticateSchema
    \cup {Frame("authenticate", TRUE, TRUE, pw, sl, FALSE) : pw \in BOOLEAN, sl \in ServerLists}
    \cup {Frame(a, TRUE, ok, FALSE, <<>>, FALSE) :
            a \in {"player-status-check", "player-server-check"}, ok \in BOOLEAN}
    \cup {Frame("command-executed", TRUE, TRUE, FALSE, <<>>, r) : r \in BOOLEAN}
    \cup {Frame("command-executed", TRUE, FALSE, FALSE, <<>>, FALSE)}

NoStep == [op |-> "none", conn |-> "none", action |-> "", invoked |-> "none",
           outcome |-> "none"]

Step(op, c, a, inv, out) ==
    [op |-> op, conn |-> c, action |-> a, invoked |-> inv, outcome |-> out]

SessionIds == {authenticated_client[i].id : i \in 1 .. Len(authenticated_client)}

HasSession(c) == c \in SessionIds

SessionOf(c) ==
    authenticated_client[CHOOSE i \in 1 .. Len(authenticated_client) :
                                authenticated_client[i].id = c]

\* auth_deadline.done(): the sleep(3) task has finished and was not cancelled
DeadlineDone(c) ==
    /\ ~conn[c].deadline_cancelled
    /\ wsNow >= conn[c].connected_at + AuthDeadline

\* the gate of line 76 without the session test
AuthGate_Open(c, action) == FALSE

\* line 76: an unauthenticated client may only send authenticate
AuthGate(c, action) == ~HasSession(c) /\ action # "authenticate"

\* the password test of the authenticate action, accepting everything
PasswordMatches_Always(f) == TRUE

\* data.password != auth_password
PasswordMatches(f) == f.pw_ok

\* add_server without the reserved name
ServersAfterAuth_NoAll(servers, sl) == servers \o sl

\* GlobalState.minecraft.add_server(data.server_list + ["all"])
ServersAfterAuth(servers, sl) == servers \o sl \o <<"all">>

\* authenticated_client[client_id] = (websocket, data)
StoreSession(store, c, sl) ==
    IF \E i \in 1 .. Len(store) : store[i].id = c
    THEN [i \in 1 .. Len(store) |->
            IF store[i].id = c THEN [id |-> c, server_list |-> sl] ELSE store[i]]
    ELSE Append(store, [id |-> c, server_list |-> sl])

\* del authenticated_client[client_id]
DropSession(store, c) == SelectSeq(store, LAMBDA e : e.id # c)

\* the finally block that keeps the server names
ServersAfterTeardown_Kept(servers) == servers

\* GlobalState.minecraft.clear_servers()
ServersAfterTeardown(servers) == <<>>

\* a frame error that ends the read loop
StateAfterFrameError_Closing == "closing"

\* the except clauses of the read loop: the loop goes on with the next frame
StateAfterFrameError == "open"

NewConn == [st |-> "new", connected_at |-> 0, auth_complete |-> FALSE,
            deadline_cancelled |-> FALSE, close_reason |-> "none", bad_seen |-> FALSE]

WsInit ==
    /\ wsNow = 0
    /\ conn = [c \in Conns |-> NewConn]
    /\ authenticated_client = <<>>
    /\ minecraft_servers = <<>>
    /\ online_players = {}
    /\ player_uuids = {}
    /\ player_servers = {}
    /\ nframes = 0
    /\ wsLast = NoStep

\* handle_connection up to the read loop (lines 36-57)
Connect(c, ip_allowed) ==
    /\ conn[c].st = "new"
    /\ IF ~ip_allowed
       THEN /\ conn' = [conn EXCEPT ![c].st = "closed",
                                    ![c].close_reason = "Connection not allowed from this IP"]
            /\ wsLast' = Step("connect", c, "", "none", "rejected")
       ELSE IF HasSession(c)
       THEN /\ conn' = [conn EXCEPT ![c].st = "closed",
                                    ![c].close_reason = "Connection already exists"]
            /\ wsLast' = Step("connect", c, "", "none", "rejected")
       ELSE /\ conn' = [conn EXCEPT ![c].st = "open", ![c].connected_at = wsNow]
            /\ wsLast' = Step("connect", c, "", "none", "accepted")
    /\ UNCHANGED <<wsNow, authenticated_client, minecraft_servers, online_players,
                   player_uuids, player_servers, nframes>>

\* the frame is skipped (continue, or a caught exception); the loop goes on
SkipFrame(c, f, inv, why) ==
    /\ conn' = [conn EXCEPT ![c].st = StateAfterFrameError,
                            ![c].bad_seen = (conn[c].bad_seen \/ HasSession(c))]
    /\ wsLast' = Step("frame", c, f.action, inv, why)
    /\ UNCHANGED <<authenticated_client, minecraft_servers, online_players, player_uuids,
                   player_servers>>

\* the authenticate action (actions/response/authenticate.py) and lines 114-117
Authenticate(c, f) ==
    IF ~PasswordMatches(f)
    THEN /\ conn' = [conn EXCEPT
                       ![c].st = "closing",
                       ![c].close_reason = "Authentication failed: Invalid credentials provided",
                       ![c].auth_complete = (conn[c].auth_complete \/ HasSession(c)),
                       ![c].deadline_cancelled = (conn[c].deadline_cancelled \/ HasSession(c))]
         /\ wsLast' = Step("frame", c, f.action, "authenticate", "auth-failed")
         /\ UNCHANGED <<authenticated_client, minecraft_servers, online_players,
                        player_uuids, player_servers>>
    ELSE /\ authenticated_client' = StoreSession(authenticated_client, c, f.server_list)
         /\ minecraft_servers' = ServersAfterAuth(minecraft_servers, f.server_list)
         /\ conn' = [conn EXCEPT ![c].auth_complete = TRUE, ![c].deadline_cancelled = TRUE]
         /\ wsLast' = Step("frame", c, f.action, "authenticate", "authenticated")
         /\ UNCHANGED <<online_players, player_uuids, player_servers>>

\* player_status_check with {username: Steve, uuid: u-1, online: true}
PlayerStatusCheck(c, f) ==
    /\ online_players' = online_players \cup {"Steve", "u-1"}
    /\ player_uuids' = player_uuids \cup {<<"Steve", "u-1">>}
    /\ wsLast' = Step("frame", c, f.action, f.action, "handled")
    /\ UNCHANGED <<conn, authenticated_client, minecraft_servers, player_servers>>

\* player_server_check with {username: Steve, uuid: u-1, server: lobby}
PlayerServerCheck(c, f) ==
    /\ player_servers' = player_servers \cup {<<"Steve", "lobby">>, <<"u-1", "lobby">>}
    /\ wsLast' = Step("frame", c, f.action, f.action, "handled")
    /\ UNCHANGED <<conn, authenticated_client, minecraft_servers, online_players,
                   player_uuids>>

\* command_executed: its effects are outside the listener; it may raise
CommandExecuted(c, f) ==
    IF f.raises
    THEN SkipFrame(c, f, f.action, "handler-raised")
    ELSE /\ wsLast' = Step("frame", c, f.action, f.action, "handled")
         /\ UNCHANGED <<conn, authenticated_client, minecraft_servers, online_players,
                        player_uuids, player_servers>>

\* one iteration of the read loop (lines 60-132)
ProcessFrame(c, f) ==
    /\ conn[c].st = "open"
    /\ nframes < MaxFrames
    /\ nframes' = nframes + 1
    /\ wsNow' = wsNow
    /\ IF ~conn[c].auth_complete /\ DeadlineDone(c)
       THEN /\ conn' = [conn EXCEPT ![c].st = "closing",
                                    ![c].close_reason = "Authentication timeout"]
            /\ wsLast' = Step("frame", c, f.action, "none", "timeout")
            /\ UNCHANGED <<authenticated_client, minecraft_servers, online_players,
                           player_uuids, player_servers>>
       ELSE IF ~f.json_ok THEN SkipFrame(c, f, "none", "invalid-json")
       ELSE IF f.action = "" THEN SkipFrame(c, f, "none", "no-action")
       ELSE IF AuthGate(c, f.action) THEN SkipFrame(c, f, "none", "unauthenticated")
       ELSE IF f.action \notin Registered THEN SkipFrame(c, f, "none", "no-handler")
       ELSE IF ~f.schema_ok THEN SkipFrame(c, f, "none", "validation-error")
       ELSE IF f.action = "authenticate" THEN Authenticate(c, f)
       ELSE IF f.action = "player-status-check" THEN PlayerStatusCheck(c, f)
       ELSE IF f.action = "player-server-check" THEN PlayerServerCheck(c, f)
       ELSE CommandExecuted(c, f)

\* the finally block (lines 136-148)
Finally(c, why) ==
    /\ conn' = [conn EXCEPT ![c].st = "closed", ![c].deadline_cancelled = TRUE]
    /\ authenticated_client' = DropSession(authenticated_client, c)
    /\ minecraft_servers' = ServersAfterTeardown(minecraft_servers)
    /\ wsLast' = Step("teardown", c, "", "none", why)
    /\ UNCHANGED <<wsNow, online_players, player_uuids, player_servers, nframes>>

\* the peer closes, or the transport fails: the read loop ends
PeerClose(c, why) ==
    /\ conn[c].st = "open"
    /\ Finally(c, why)

\* the bridge has closed the connection itself: the read loop ends
Teardown(c) ==
    /\ conn[c].st = "closing"
    /\ Finally(c, "closed-by-bridge")

WsTick ==
    /\ wsNow < MaxWsTime
    /\ wsNow' = wsNow + 1
    /\ wsLast' = NoStep
    /\ UNCHANGED <<conn, authenticated_client, minecraft_servers, online_players,
                   player_uuids, player_servers, nframes>>

WsNext ==
    \/ \E c \in Conns, ip_allowed \in BOOLEAN : Connect(c, ip_allowed)
    \/ \E c \in Conns, f \in Frames : ProcessFrame(c, f)
    \/ \E c \in Conns, why \in {"peer-closed", "transport-error"} : PeerClose(c, why)
    \/ \E c \in Conns : Teardown(c)
    \/ WsTick

\* a listener nobody connects to (the other components' specifications)
WsIdle == WsInit

(***************************************************************************)
(* Part 3.  Punishment scheduler: temporary bans, chained timeouts,        *)
(*          the task registry and startup recovery                         *)
(***************************************************************************)

\* ---- program constant: Discord's maximum timeout, 28 days in seconds ----
MAX_TIMEOUT_DURATION == 2419200

\* ---- bounds of the model -----------------------------------------------
MaxRecords == 2
LastIssue == 0
Late == 60

Users == {1}
PTypes == {"ban", "timeout"}
Durations == {600, 3000000, 2 * MAX_TIMEOUT_DURATION + 30}
BanDurations == {600}
Latenesses == {0, Late}
NoTime == -1
NoTid == 0

VARIABLES
    pnow,             \* datetime.now(timezone.utc), whole seconds
    temp_actions,     \* the rows of table temporary_actions
    next_id,          \* the autoincrement counter of that table
    ptasks,           \* the lightbulb tasks of this process
    registry,         \* TasksState._tasks: key -> task
    disabled_until,   \* Discord: communication_disabled_until per member (0: none)
    banned,           \* Discord: the guild's ban list
    running,          \* the bot process is up
    punLast           \* history: what the last scheduler step did

punVars == <<pnow, temp_actions, next_id, ptasks, registry, disabled_until, banned,
             running, punLast>>

PKeys == Users \X PTypes

Rec(id, u, ty, exp, ref) ==
    [id |-> id, user_id |-> u, punishment_type |-> ty, expires_at |-> exp,
     refresh_at |-> ref]

HasRec(recs, id) == \E r \in recs : r.id = id

RecById(recs, id) == CHOOSE r \in recs : r.id = id

\* create_or_update_temporary_action with an id: update the row, or create it
UpdateRecord(recs, id, u, ty, exp, ref) ==
    {r \in recs : r.id # id} \cup {Rec(id, u, ty, exp, ref)}

\* delete_temporary_action
DeleteRecord(recs, id) == {r \in recs : r.id # id}

NoPunStep == [op |-> "none", user |-> 0, id |-> 0, kind |-> "none", src |-> "none",
              chunk |-> 0, armed |-> "none", due |-> 0, registered |-> FALSE,
              rest |-> "none", late |-> 0, log |-> <<>>]

TaskIds(ts) == {t.tid : t \in ts}

\* the identity of a newly created lightbulb.Task object
FreeTid(ts) ==
    CHOOSE i \in 1 .. Cardinality(ts) + 1 :
        i \notin TaskIds(ts) /\ \A j \in 1 .. i - 1 : j \in TaskIds(ts)

\* client.task(uniformtrigger(seconds = delay), max_invocations = 1)(fn)
NewTask(ts, u, ty, knd, src, due, id, exp, rt) ==
    [tid |-> FreeTid(ts), user |-> u, ptype |-> ty, kind |-> knd, src |-> src,
     due |-> due, id |-> id, expires_at |-> exp, refresh_time |-> rt, state |-> "armed"]

\* Task.cancel() on the handle stored under key, if it is not cancelled yet
CancelStored(ts, reg, key) ==
    {IF t.tid = reg[key] /\ t.state # "cancelled" THEN [t EXCEPT !.state = "cancelled"]
     ELSE t : t \in ts}

\* TasksState.add_or_refresh_task
AddOrRefreshTask(ts, reg, key, t) ==
    [ts |-> CancelStored(ts, reg, key) \cup {t}, reg |-> [reg EXCEPT ![key] = t.tid]]

\* TasksState.remove_task
RemoveTask(reg, key) == [reg EXCEPT ![key] = NoTid]

\* TasksState.has_task
HasTask(reg, key) == reg[key] # NoTid

\* what TasksState.remove_task returns
RemoveTaskResult(reg, key) == HasTask(reg, key)

CancelTask_KeepsRunning(ts, reg, key) ==
    [ts |-> ts, reg |-> [reg EXCEPT ![key] = NoTid], result |-> HasTask(reg, key)]

\* TasksState.cancel_task
CancelTask(ts, reg, key) ==
    IF ~HasTask(reg, key) THEN [ts |-> ts, reg |-> reg, result |-> FALSE]
    ELSE [ts |-> CancelStored(ts, reg, key), reg |-> [reg EXCEPT ![key] = NoTid],
          result |-> TRUE]

\* of a task that will not run again only the handle and its flag matter
Handle(t) ==
    IF t.state = "armed" THEN t
    ELSE [t EXCEPT !.kind = "none", !.src = "none", !.due = 0, !.id = 0,
                   !.expires_at = 0, !.refresh_time = 0]

\* task objects nobody refers to any more are forgotten
Collect(ts, reg) ==
    {Handle(t) : t \in {x \in ts : x.state = "armed" \/ \E k \in PKeys : reg[k] = x.tid}}

\* max_invocations = 1: the task that runs now will not run again
MarkFired(ts, t) == (ts \ {t}) \cup {[t EXCEPT !.state = "fired"]}

PunInit ==
    /\ pnow = 0
    /\ temp_actions = {}
    /\ next_id = 1
    /\ ptasks = {}
    /\ registry = [k \in PKeys |-> NoTid]
    /\ disabled_until = [u \in Users |-> 0]
    /\ banned = [u \in Users |-> FALSE]
    /\ running = TRUE
    /\ punLast = NoPunStep

RestOutcomes == {"ok", "not_found", "error"}

PStep(op, u, id, knd, src, chunk, armed, due, registered, rest, lateness) ==
    [op |-> op, user |-> u, id |-> id, kind |-> knd, src |-> src, chunk |-> chunk,
     armed |-> armed, due |-> due, registered |-> registered, rest |-> rest,
     late |-> lateness, log |-> <<>>]

\* the modules that apply timeouts: extensions/moderation/timeout.py ("discord")
\* and websocket/actions/event/command_executed.py ("minecraft")
Sources == {"discord", "minecraft"}

\* the minecraft variant stores every task in the registry; the discord variant
\* stores only the task armed in the first branch of _refresh_timeout_task
Registers(src, knd, first) == src = "minecraft" \/ (knd = "refresh" /\ ~first)

\* store the new task, through the registry or not
Store(ts, reg, key, t, registered) ==
    IF registered THEN AddOrRefreshTask(ts, reg, key, t)
    ELSE [ts |-> ts \cup {t}, reg |-> reg]

\* initial_timeout_end / next_refresh
ChunkEnd(at) == at + MAX_TIMEOUT_DURATION

\* every remaining time is called short
NeedsAnotherRefresh_Never(remaining) == FALSE

\* remaining_seconds > MAX_TIMEOUT_DURATION
NeedsAnotherRefresh(remaining) == remaining > MAX_TIMEOUT_DURATION

\* _handle_extended_timeout
HandleExtendedTimeout(src, u, exp, rest) ==
    LET end == ChunkEnd(pnow)
        reg == Registers(src, "refresh", TRUE)
        t == NewTask(ptasks, u, "timeout", "refresh", src, pnow + MAX_TIMEOUT_DURATION,
                     next_id, exp, end)
        st == Store(ptasks, registry, <<u, "timeout">>, t, reg)
    IN  /\ next_id <= MaxRecords
        /\ running' = running
        /\ temp_actions' = temp_actions \cup {Rec(next_id, u, "timeout", exp, end)}
        /\ next_id' = next_id + 1
        /\ IF rest = "ok"
           THEN /\ disabled_until' = [disabled_until EXCEPT ![u] = end]
                /\ ptasks' = Collect(st.ts, st.reg)
                /\ registry' = st.reg
                /\ punLast' = PStep("apply", u, next_id, "extended", src, end - pnow,
                                    "refresh", t.due, reg, rest, 0)
           ELSE /\ punLast' = PStep("apply", u, next_id, "extended", src, 0, "none", 0,
                                    FALSE, rest, 0)
                /\ UNCHANGED <<disabled_until, ptasks, registry>>
        /\ UNCHANGED <<pnow, banned>>

\* _apply_timeout, after the checks of the command that calls it
ApplyTimeout(src, u, D, rest) ==
    /\ running
    /\ pnow <= LastIssue
    /\ src = "discord" => disabled_until[u] <= pnow
    /\ IF D > MAX_TIMEOUT_DURATION
       THEN HandleExtendedTimeout(src, u, pnow + D, rest)
       ELSE /\ disabled_until' = IF rest = "ok"
                                 THEN [disabled_until EXCEPT ![u] = pnow + D]
                                 ELSE disabled_until
            /\ punLast' = PStep("apply", u, 0, "short", src,
                                IF rest = "ok" THEN D ELSE 0, "none", 0, FALSE, rest, 0)
            /\ UNCHANGED <<pnow, temp_actions, next_id, ptasks, registry, banned,
                           running>>

\* _handle_tempban / Ban._handle_temporary_ban
TempBan(u, D, rest) ==
    LET t == NewTask(ptasks, u, "ban", "tempban", "minecraft", pnow + D, next_id,
                     pnow + D, NoTime)
        st == AddOrRefreshTask(ptasks, registry, <<u, "ban">>, t)
    IN  /\ running
        /\ running' = running
        /\ pnow <= LastIssue
        /\ next_id <= MaxRecords
        /\ temp_actions' = temp_actions \cup {Rec(next_id, u, "ban", pnow + D, NoTime)}
        /\ next_id' = next_id + 1
        /\ ptasks' = Collect(st.ts, st.reg)
        /\ registry' = st.reg
        /\ banned' = IF rest = "ok" THEN [banned EXCEPT ![u] = TRUE] ELSE banned
        /\ punLast' = PStep("tempban", u, next_id, "tempban", "minecraft", 0, "tempban",
                            t.due, TRUE, rest, 0)
        /\ UNCHANGED <<pnow, disabled_until>>

\* what unban_member answers: an unknown ban is NotFoundError
UnbanOutcome(ban, u, rest) ==
    IF rest = "error" THEN "error" ELSE IF ban[u] THEN "ok" ELSE "not_found"

\* _refresh_timeout_task, run by the task t
RefreshTimeoutTask(t, rest) ==
    LET ts1 == MarkFired(ptasks, t)
        key == <<t.user, "timeout">>
        remaining == t.expires_at - t.refresh_time
        more == NeedsAnotherRefresh(remaining)
        next_refresh == ChunkEnd(pnow)
        until == IF more THEN next_refresh ELSE t.expires_at
        knd == IF more THEN "refresh" ELSE "final"
        reg == Registers(t.src, knd, FALSE)
        nt == NewTask(ts1, t.user, "timeout", knd, t.src,
                      IF more THEN pnow + MAX_TIMEOUT_DURATION ELSE pnow + remaining,
                      t.id, t.expires_at, IF more THEN next_refresh ELSE NoTime)
        st == Store(ts1, registry, key, nt, reg)
    IN  IF t.refresh_time < t.expires_at
        THEN /\ temp_actions' = UpdateRecord(temp_actions, t.id, t.user, "timeout",
                                             t.expires_at,
                                             IF more THEN next_refresh ELSE NoTime)
             /\ IF rest = "ok"
                THEN /\ disabled_until' = [disabled_until EXCEPT ![t.user] = until]
                     /\ ptasks' = Collect(st.ts, st.reg)
                     /\ registry' = st.reg
                     /\ punLast' = PStep("fire", t.user, t.id, "refresh", t.src,
                                         until - pnow, knd, nt.due, reg, rest,
                                         pnow - t.due)
                ELSE /\ ptasks' = Collect(ts1, registry)
                     /\ punLast' = PStep("fire", t.user, t.id, "refresh", t.src, 0,
                                         "none", 0, FALSE, rest, pnow - t.due)
                     /\ UNCHANGED <<disabled_until, registry>>
        ELSE /\ ptasks' = Collect(ts1, registry)
             /\ punLast' = PStep("fire", t.user, t.id, "refresh", t.src, 0, "none", 0,
                                 FALSE, "none", pnow - t.due)
             /\ UNCHANGED <<temp_actions, disabled_until, registry>>

\* timeout_expired, the final task of a chain
TimeoutExpired(t) ==
    LET reg == RemoveTask(registry, <<t.user, "timeout">>)
    IN  /\ temp_actions' = DeleteRecord(temp_actions, t.id)
        /\ registry' = reg
        /\ ptasks' = Collect(MarkFired(ptasks, t), reg)
        /\ punLast' = PStep("fire", t.user, t.id, "final", t.src, 0, "none", 0, FALSE,
                            "none", pnow - t.due)
        /\ UNCHANGED <<disabled_until, banned>>

\* handle_temporary_ban (every exception is logged), ban_expiry_task and
\* timeout_expiry_task (NotFoundError deletes the record)
RevertTask(t, rest) ==
    LET key == <<t.user, t.ptype>>
        out == IF t.ptype = "ban" THEN UnbanOutcome(banned, t.user, rest) ELSE rest
        done == out = "ok"
        gone == out = "not_found" /\ t.kind # "tempban"
        reg == IF done THEN RemoveTask(registry, key) ELSE registry
    IN  /\ temp_actions' = IF done \/ gone THEN DeleteRecord(temp_actions, t.id)
                           ELSE temp_actions
        /\ registry' = reg
        /\ ptasks' = Collect(MarkFired(ptasks, t), reg)
        /\ banned' = IF done /\ t.ptype = "ban" THEN [banned EXCEPT ![t.user] = FALSE]
                     ELSE banned
        /\ disabled_until' = IF done /\ t.ptype = "timeout"
                             THEN [disabled_until EXCEPT ![t.user] = 0]
                             ELSE disabled_until
        /\ punLast' = PStep("fire", t.user, t.id, t.kind, t.src, 0, "none", 0, FALSE, out,
                            pnow - t.due)

\* the trigger of an armed task elapses and lightbulb invokes it
FireTask(t, rest) ==
    /\ t \in ptasks
    /\ t.state = "armed"
    /\ t.due <= pnow
    /\ running
    /\ running' = running
    /\ pnow' = pnow
    /\ next_id' = next_id
    /\ IF t.kind = "refresh" THEN RefreshTimeoutTask(t, rest) /\ banned' = banned
       ELSE IF t.kind = "final" THEN TimeoutExpired(t)
       ELSE RevertTask(t, rest)

\* the state the startup handlers work on
Sched(recs, ts, reg, dis, ban) ==
    [recs |-> recs, ts |-> ts, reg |-> reg, dis |-> dis, ban |-> ban, log |-> <<>>]

\* one call the recovery makes for record id: a revert attempt, a record
\* deletion, a task it arms, a timeout chunk it applies
Ev(ev, id) == [ev |-> ev, id |-> id]

\* no record counts as expired
Expired_Never(a, at) == FALSE

\* expires_at and expires_at <= now
Expired(a, at) == a.expires_at <= at

\* _handle_ban_action
HandleBanAction(s, a, at, rest) ==
    LET out == UnbanOutcome(s.ban, a.user_id, rest)
        delay == a.expires_at - at
        t == NewTask(s.ts, a.user_id, "ban", "ban_expiry", "startup", at + delay, a.id,
                     a.expires_at, NoTime)
        st == AddOrRefreshTask(s.ts, s.reg, <<a.user_id, "ban">>, t)
    IN  IF Expired(a, at)
        THEN [s EXCEPT !.recs = IF out # "error" THEN DeleteRecord(@, a.id) ELSE @,
                       !.ban = IF out = "ok" THEN [@ EXCEPT ![a.user_id] = FALSE] ELSE @,
                       !.log = IF out # "error"
                               THEN @ \o <<Ev("revert", a.id), Ev("delete", a.id)>>
                               ELSE Append(@, Ev("revert", a.id))]
        ELSE [s EXCEPT !.ts = st.ts, !.reg = st.reg, !.log = Append(@, Ev("arm", a.id))]

\* _handle_timeout_refresh: a chunk is applied and the record updated
HandleTimeoutRefresh(s, a, at, rest) ==
    LET time_until_expiry == a.expires_at - at
        timeout_duration == IF time_until_expiry < MAX_TIMEOUT_DURATION
                            THEN time_until_expiry ELSE MAX_TIMEOUT_DURATION
        next_refresh == IF time_until_expiry > MAX_TIMEOUT_DURATION
                        THEN at + MAX_TIMEOUT_DURATION ELSE NoTime
    IN  IF rest # "ok" THEN s
        ELSE [s EXCEPT !.dis = [@ EXCEPT ![a.user_id] = at + timeout_duration],
                       !.recs = UpdateRecord(@, a.id, a.user_id, a.punishment_type,
                                             a.expires_at, next_refresh),
                       !.log = Append(@, Ev("chunk", a.id))]

\* _handle_timeout_action
HandleTimeoutAction(s, a, at, rest) ==
    LET delay == a.expires_at - at
        t == NewTask(s.ts, a.user_id, "timeout", "timeout_expiry", "startup", at + delay,
                     a.id, a.expires_at, NoTime)
        st == AddOrRefreshTask(s.ts, s.reg, <<a.user_id, "timeout">>, t)
    IN  IF Expired(a, at)
        THEN [s EXCEPT !.recs = DeleteRecord(@, a.id), !.log = Append(@, Ev("delete", a.id))]
        ELSE IF a.refresh_at # NoTime /\ a.refresh_at < a.expires_at
        THEN HandleTimeoutRefresh(s, a, at, rest)
        ELSE IF a.refresh_at = NoTime /\ a.expires_at - at > MAX_TIMEOUT_DURATION
        THEN HandleTimeoutRefresh(s, [a EXCEPT !.refresh_at = at + MAX_TIMEOUT_DURATION],
                                  at, rest)
        ELSE [s EXCEPT !.ts = st.ts, !.reg = st.reg, !.log = Append(@, Ev("arm", a.id))]

RECURSIVE RunHandlers(_, _, _, _)
\* the loop of schedule_punishment_tasks over the rows it has read
RunHandlers(s, pending, at, rest) ==
    IF pending = {} THEN s
    ELSE LET a == CHOOSE r \in pending : \A q \in pending : r.id <= q.id
             s2 == IF a.punishment_type = "ban"
                   THEN HandleBanAction(s, a, at, rest[a.id])
                   ELSE HandleTimeoutAction(s, a, at, rest[a.id])
         IN  RunHandlers(s2, pending \ {a}, at, rest)

\* schedule_punishment_tasks
SchedulePunishmentTasks(rest) ==
    LET s == RunHandlers(Sched(temp_actions, ptasks, registry, disabled_until, banned),
                         temp_actions, pnow, rest)
    IN  /\ temp_actions' = s.recs
        /\ ptasks' = Collect(s.ts, s.reg)
        /\ registry' = s.reg
        /\ disabled_until' = s.dis
        /\ banned' = s.ban
        /\ punLast' = [PStep("startup", 0, 0, "none", "startup", 0, "none", 0, FALSE,
                             IF \A i \in DOMAIN rest : rest[i] = "ok" THEN "ok"
                             ELSE "failed", 0)
                       EXCEPT !.log = s.log]
        /\ UNCHANGED <<pnow, next_id>>

\* get_filtered_temporoary_action_logs(user_id, punishment_type, get_latest = True):
\* the rows of the user and type, the one with the highest id
LatestRecords(recs, u, ty) ==
    {r \in recs : /\ r.user_id = u
                  /\ r.punishment_type = ty
                  /\ \A q \in recs : q.user_id = u /\ q.punishment_type = ty => q.id <= r.id}

\* on_ban_delete: the audit log reports that somebody lifted the ban of u
OnBanDelete(u) ==
    LET latest == LatestRecords(temp_actions, u, "ban")
        can == CancelTask(ptasks, registry, <<u, "ban">>)
    IN  /\ running
        /\ banned[u]
        /\ banned' = [banned EXCEPT ![u] = FALSE]
        /\ IF latest # {}
           THEN /\ temp_actions' = temp_actions \ latest
                /\ ptasks' = Collect(can.ts, can.reg)
                /\ registry' = can.reg
           ELSE UNCHANGED <<temp_actions, ptasks, registry>>
        /\ punLast' = PStep("unban_event", u, 0, "none", "discord", 0, "none", 0, FALSE,
                            "ok", 0)
        /\ UNCHANGED <<pnow, next_id, disabled_until, running>>

\* UnTimeout.invoke ("discord", refused for a user who is not timed out) and
\* _handle_untimeout ("minecraft"): the timeout is lifted by hand
UnTimeout(src, u, rest) ==
    /\ running
    /\ src = "discord" => disabled_until[u] > pnow
    /\ disabled_until' = IF rest = "ok" THEN [disabled_until EXCEPT ![u] = 0]
                         ELSE disabled_until
    /\ punLast' = PStep("untimeout", u, 0, "none", src, 0, "none", 0, FALSE, rest, 0)
    /\ UNCHANGED <<pnow, temp_actions, next_id, ptasks, registry, banned, running>>

RecIds == {r.id : r \in temp_actions}

\* the process starts and on_ready runs the recovery
Startup(rest) ==
    /\ ~running
    /\ running' = TRUE
    /\ SchedulePunishmentTasks(rest)

\* the process stops: its tasks and its registry are gone, the table stays
Stop ==
    /\ running
    /\ running' = FALSE
    /\ ptasks' = {}
    /\ registry' = [k \in PKeys |-> NoTid]
    /\ punLast' = NoPunStep
    /\ UNCHANGED <<pnow, temp_actions, next_id, disabled_until, banned>>

LiveDue == {t.due : t \in {x \in ptasks : x.state = "armed"}}

Targets ==
    {d + l : d \in LiveDue, l \in Latenesses}
    \cup {r.expires_at : r \in temp_actions}
    \cup {r.refresh_at : r \in temp_actions}
    \cup {disabled_until[u] : u \in Users}

\* time passes; an armed task is invoked at most Late seconds after it is due
Advance(t) ==
    /\ t \in Targets
    /\ t > pnow
    /\ \A d \in LiveDue : t <= d + Late
    /\ pnow' = t
    /\ punLast' = NoPunStep
    /\ UNCHANGED <<temp_actions, next_id, ptasks, registry, disabled_until, banned,
                   running>>

PunNext ==
    \/ \E src \in Sources, u \in Users, D \in Durations, rest \in {"ok", "error"} :
          ApplyTimeout(src, u, D, rest)
    \/ \E u \in Users, D \in BanDurations, rest \in {"ok", "error"} : TempBan(u, D, rest)
    \/ \E t \in ptasks, rest \in RestOutcomes : FireTask(t, rest)
    \/ \E rest \in [RecIds -> RestOutcomes] : Startup(rest)
    \/ \E u \in Users : OnBanDelete(u)
    \/ \E src \in Sources, u \in Users, rest \in {"ok", "error"} : UnTimeout(src, u, rest)
    \/ Stop
    \/ \E t \in Targets : Advance(t)

\* a scheduler nobody uses (the other components' specifications)
PunIdle == PunInit

(***************************************************************************)
(* Part 4.  Outbound calls: WebSocketManager.send_message and the          *)
(*          fire-and-forget calls of MinecraftHelper                       *)
(***************************************************************************)

ServerNames == {"lobby", "all", "bungeecord", "nether"}
WriteOutcomes == {"ok", "closed", "error"}

VARIABLES
    outLast           \* history: the last outbound call, its result and its write

outVars == <<outLast>>

NoCall == [op |-> "none", server |-> "none", result |-> FALSE, raised |-> FALSE,
           wrote |-> "none", to |-> "none", outcome |-> "none"]

Call(op, server, result, raised, wrote, to, outcome) ==
    [op |-> op, server |-> server, result |-> result, raised |-> raised, wrote |-> wrote,
     to |-> to, outcome |-> outcome]

\* the names validate_server lets through whatever the peers advertised
ReservedServers == {"all", "bungeecord", "velocity"}

\* ServerBaseSchema.validate_server: TRUE when the value is returned, FALSE
\* when ValueError is raised (pydantic turns it into a ValidationError)
ValidateServer(store, value) ==
    \/ value \in ReservedServers
    \/ \E i \in 1 .. Len(store) :
          \E j \in 1 .. Len(store[i].server_list) : store[i].server_list[j] = value

\* what websocket.send can do on connection c: the bridge has closed a
\* connection that is "closing"; an open one may have failed unnoticed
TransportOutcomes(c) ==
    IF conn[c].st = "open" THEN WriteOutcomes ELSE {"closed"}

\* the outcomes a call can meet in the current state
Outcomes ==
    IF Len(authenticated_client) = 0 THEN {"none"}
    ELSE TransportOutcomes(authenticated_client[1].id)

\* send_message reporting success whatever happened
SendMessage_AlwaysTrue(store, serialisable, outcome) ==
    [result |-> TRUE, raised |-> FALSE, wrote |-> "none",
     to |-> IF Len(store) = 0 THEN "none" ELSE store[1].id]

\* WebSocketManager.send_message: the first session of the table is written to
SendMessage(store, serialisable, outcome) ==
    IF Len(store) = 0
    THEN [result |-> FALSE, raised |-> FALSE, wrote |-> "none", to |-> "none"]
    ELSE LET client_id == store[1].id
         IN  IF serialisable /\ outcome = "ok"
             THEN [result |-> TRUE, raised |-> FALSE, wrote |-> client_id,
                   to |-> client_id]
             ELSE [result |-> FALSE, raised |-> FALSE, wrote |-> "none",
                   to |-> client_id]

\* a direct call of send_message
SendMessageCall(serialisable, outcome) ==
    LET r == SendMessage(authenticated_client, serialisable, outcome)
    IN  /\ outcome \in Outcomes
        /\ outLast' = Call("send_message", "none", r.result, r.raised, r.wrote, r.to,
                           IF serialisable THEN outcome ELSE "not-serialisable")
        /\ UNCHANGED wsVars

\* MinecraftHelper.check_servers_available
CheckServersAvailable == Len(minecraft_servers) > 0

\* GlobalState.minecraft.contains_server
ContainsServer(server) == \E i \in 1 .. Len(minecraft_servers) : minecraft_servers[i] = server

\* the helpers await send_message, drop its result and return True
HelperResult(r) == TRUE

\* the tail of the four helpers: the frame is handed to send_message
FireAndForget(op, server, outcome) ==
    LET r == SendMessage(authenticated_client, TRUE, outcome)
    IN  outLast' = Call(op, server, HelperResult(r), r.raised, r.wrote, r.to, outcome)

\* the call returns False before any schema is built
Refused(op, server) == outLast' = Call(op, server, FALSE, FALSE, "none", "none", "not-sent")

\* the call raises (ValueError of the helper, ValidationError of the schema)
Raises(op, server, error) == outLast' = Call(op, server, FALSE, TRUE, "none", "none", error)

\* MinecraftHelper.send_global_message
SendGlobalMessage(outcome) ==
    /\ outcome \in Outcomes
    /\ IF ~CheckServersAvailable THEN Refused("send_global_message", "none")
       ELSE FireAndForget("send_global_message", "none", outcome)
    /\ UNCHANGED wsVars

\* MinecraftHelper.send_server_message
SendServerMessage(server, outcome) ==
    /\ outcome \in Outcomes
    /\ IF ~CheckServersAvailable \/ ~ContainsServer(server)
       THEN Refused("send_server_message", server)
       ELSE IF ~ValidateServer(authenticated_client, server)
       THEN Raises("send_server_message", server, "validation-error")
       ELSE FireAndForget("send_server_message", server, outcome)
    /\ UNCHANGED wsVars

\* MinecraftHelper.send_player_message for the player Steve, after the status
\* request has been answered or not
SendPlayerMessage(outcome) ==
    /\ outcome \in Outcomes
    /\ IF "Steve" \notin online_players THEN Refused("send_player_message", "none")
       ELSE FireAndForget("send_player_message", "none", outcome)
    /\ UNCHANGED wsVars

\* MinecraftHelper.dispatch_command: an unknown server raises ValueError
DispatchCommand(server, outcome) ==
    /\ outcome \in Outcomes
    /\ IF ~CheckServersAvailable THEN Refused("dispatch_command", server)
       ELSE IF ~ContainsServer(server)
       THEN Raises("dispatch_command", server, "value-error")
       ELSE IF ~ValidateServer(authenticated_client, server)
       THEN Raises("dispatch_command", server, "validation-error")
       ELSE FireAndForget("dispatch_command", server, outcome)
    /\ UNCHANGED wsVars

\* CommandHelper.synchronize_to_minecraft with synchronisation enabled: a
\* command-executed message is built and handed to send_message
SynchronizeToMinecraft(server, outcome) ==
    LET r == SendMessage(authenticated_client, TRUE, outcome)
    IN  /\ outcome \in Outcomes
        /\ IF ~ValidateServer(authenticated_client, server)
           THEN Raises("command_executed", server, "validation-error")
           ELSE outLast' = Call("command_executed", server, r.result, r.raised, r.wrote,
                                r.to, outcome)
        /\ UNCHANGED wsVars

\* the listener at one instant: connections, frames and teardowns
ListenerStep ==
    \/ \E c \in Conns, ip_allowed \in BOOLEAN : Connect(c, ip_allowed)
    \/ \E c \in Conns, f \in Frames : ProcessFrame(c, f)
    \/ \E c \in Conns, why \in {"peer-closed", "transport-error"} : PeerClose(c, why)
    \/ \E c \in Conns : Teardown(c)

OutNext ==
    \/ ListenerStep /\ outLast' = NoCall
    \/ \E serialisable \in BOOLEAN, outcome \in WriteOutcomes \cup {"none"} :
          SendMessageCall(serialisable, outcome)
    \/ \E outcome \in WriteOutcomes \cup {"none"} : SendGlobalMessage(outcome)
    \/ \E server \in ServerNames, outcome \in WriteOutcomes \cup {"none"} :
          SendServerMessage(server, outcome)
    \/ \E outcome \in WriteOutcomes \cup {"none"} : SendPlayerMessage(outcome)
    \/ \E server \in ServerNames, outcome \in WriteOutcomes \cup {"none"} :
          DispatchCommand(server, outcome)
    \/ \E server \in ServerNames, outcome \in WriteOutcomes \cup {"none"} :
          SynchronizeToMinecraft(server, outcome)

\* no outbound call is made (the other components' specifications)
OutIdle == outLast = NoCall

(***************************************************************************)
(* Part 5.  Fire-and-poll: MinecraftHelper.fetch_player_status             *)
(***************************************************************************)

\* ---- program constant: response_timeout: float = 1.0 --------------------
ResponseTimeout == 1

Callers == {"a", "b"}

VARIABLES
    calls,            \* per caller: the coroutine of its fetch_player_status(username = "Steve")
    late              \* history: the callers whose read came before a reply's write

pollVars == <<calls, late>>

NoFetch == [st |-> "idle", start |-> 0, wake |-> 0, requests |-> 0, polled |-> FALSE,
            overlapped |-> FALSE, result |-> FALSE]

\* a poll that never finds the player
CheckPlayerOnline_Never(players, identifier) == FALSE

\* GlobalState.minecraft.check_player_online
CheckPlayerOnline(players, identifier) == identifier \in players

Waiting == {x \in Callers : calls[x].st = "waiting"}

\* fetch_player_status up to the sleep of _get_player_websocket_response
FetchStart(x, outcome) ==
    LET r == SendMessage(authenticated_client, TRUE, outcome)
    IN  /\ calls[x].st = "idle"
        /\ outcome \in Outcomes
        /\ IF ~CheckServersAvailable
           THEN calls' = [calls EXCEPT ![x] = [NoFetch EXCEPT !.st = "done", !.start = wsNow]]
           ELSE IF CheckPlayerOnline(online_players, "Steve")
           THEN calls' = [calls EXCEPT ![x] = [NoFetch EXCEPT !.st = "done", !.start = wsNow,
                                                              !.result = TRUE]]
           ELSE calls' = [y \in Callers |->
                            IF y = x
                            THEN [NoFetch EXCEPT !.st = "waiting", !.start = wsNow,
                                                 !.wake = wsNow + ResponseTimeout,
                                                 !.requests = IF r.result THEN 1 ELSE 0,
                                                 !.polled = TRUE,
                                                 !.overlapped = (Waiting # {})]
                            ELSE IF y \in Waiting THEN [calls[y] EXCEPT !.overlapped = TRUE]
                            ELSE calls[y]]
        /\ UNCHANGED <<late, wsVars>>

\* a result each call derives from its own request instead of the shared container
IsOnline_OwnRequest(x) == calls[x].requests = 1

\* is_online: the read of the shared container after the sleep
IsOnline(x) == CheckPlayerOnline(online_players, "Steve")

\* the sleep is over: the container is read and the call returns
FetchFinish(x) ==
    /\ calls[x].st = "waiting"
    /\ wsNow >= calls[x].wake
    /\ calls' = [calls EXCEPT ![x].st = "done", ![x].result = IsOnline(x)]
    /\ UNCHANGED <<late, wsVars>>

\* the listener serving the peer c1
PollListener ==
    /\ \/ \E ip_allowed \in BOOLEAN : Connect("c1", ip_allowed)
       \/ \E f \in Frames : ProcessFrame("c1", f)
       \/ \E why \in {"peer-closed", "transport-error"} : PeerClose("c1", why)
       \/ Teardown("c1")
    /\ late' = IF online_players' # online_players
               THEN late \cup {x \in Callers : calls[x].st = "done" /\ calls[x].polled}
               ELSE late
    /\ calls' = calls

\* time passes; a sleeping call is woken when its delay has elapsed
PollTick ==
    /\ \A x \in Waiting : wsNow < calls[x].wake
    /\ WsTick
    /\ UNCHANGED pollVars

PollNext ==
    \/ \E x \in Callers, outcome \in WriteOutcomes \cup {"none"} : FetchStart(x, outcome)
    \/ \E x \in Callers : FetchFinish(x)
    \/ PollListener
    \/ PollTick

\* nobody polls (the other components' specifications)
PollIdle == calls = [x \in Callers |-> NoFetch] /\ late = {}

(***************************************************************************)
(* The specifications                                                      *)
(***************************************************************************)

vars == <<timedVars, wsVars, punVars, outVars, pollVars>>

InitTimed == TimedInit /\ WsIdle /\ PunIdle /\ OutIdle /\ PollIdle

NextTimed == TimedNext /\ UNCHANGED <<wsVars, punVars, outVars, pollVars>>

SpecTimed == InitTimed /\ [][NextTimed]_vars

InitWs == WsInit /\ TimedIdle /\ PunIdle /\ OutIdle /\ PollIdle

NextWs == WsNext /\ UNCHANGED <<timedVars, punVars, outVars, pollVars>>

SpecWs == InitWs /\ [][NextWs]_vars

InitPun == PunInit /\ TimedIdle /\ WsIdle /\ OutIdle /\ PollIdle

NextPun == PunNext /\ UNCHANGED <<timedVars, wsVars, outVars, pollVars>>

SpecPun == InitPun /\ [][NextPun]_vars

InitOut == OutIdle /\ WsInit /\ TimedIdle /\ PunIdle /\ PollIdle

NextOut == OutNext /\ UNCHANGED <<timedVars, punVars, pollVars>>

SpecOut == InitOut /\ [][NextOut]_vars

InitPoll == PollIdle /\ WsInit /\ OutIdle /\ TimedIdle /\ PunIdle

NextPoll == PollNext /\ UNCHANGED <<timedVars, punVars, outVars>>

SpecPoll == InitPoll /\ [][NextPoll]_vars

(***************************************************************************)
(* Properties of the containers                                            *)
(***************************************************************************)

\* C1: a key is present right after its insertion; a key stamped by add and
\* not extended since is reported absent by every lazy-mode read later than
\* t + TTL, and in eager mode is gone once one sweep interval has passed
\* after t + TTL.
C1_ExpiryObserved ==
    /\ (obs.op = "add" => items[obs.key] # Absent)
    /\ (lazy /\ obs.op = "contains" /\ obs.result /\ lastOp[obs.key] = "add")
          => now <= obs.ts + TTL
    /\ \A k \in Keys :
          (~lazy /\ items[k] # Absent /\ lastOp[k] = "add")
             => now < items[k] + TTL + CheckInterval

\* the step takes k out by an explicit call (remove, del, clear)
ExplicitRemoval(k) ==
    \/ Clear
    \/ DelItem(k)
    \/ \E ks \in SUBSET Keys : k \in ks /\ Remove(ks)

\* C2: refresh law - a present key leaves the container only by an explicit
\* removal or by a sweep that runs when the recorded (latest) insertion time
\* is at least TTL old; a stale heap entry of an earlier insertion never
\* deletes it.
C2_RefreshLaw ==
    [][\A k \in Keys :
         (items[k] # Absent /\ items'[k] = Absent)
            => (ExplicitRemoval(k) \/ now >= items[k] + TTL)]_vars

\* C2 witness: at the first expiry instant the heap entry pushed at time 0
\* has been popped, and both keys, stamped again after it, are still present
C2_Witness ==
    /\ now = TTL
    /\ seqCtr = 3
    /\ expiredCount = 1
    /\ \A k \in Keys : items[k] = EarlyTime /\ lastOp[k] = "add"
    /\ Cardinality(heap) = 2
    /\ \A e \in heap : e[1] = EarlyTime + TTL

(***************************************************************************)
(* Properties of the listener                                              *)
(***************************************************************************)

Range(sq) == {sq[i] : i \in 1 .. Len(sq)}

IpRejected == "Connection not allowed from this IP"
AuthFailed == "Authentication failed: Invalid credentials provided"
AuthTimeout == "Authentication timeout"

\* the step reads frame f on connection c
FrameStep(c, f) ==
    /\ wsLast'.op = "frame" /\ wsLast'.conn = c /\ wsLast'.action = f.action
    /\ ProcessFrame(c, f)

\* C3: on a connection with no session a frame whose action is not
\* authenticate never reaches a handler and changes neither the player
\* projections nor the session store nor the server names; while the
\* connection is AuthPending (its deadline timer still running) the frame is
\* only dropped and the connection stays open.
C3_OnlyAuthenticateBeforeAuth ==
    [][\A c \in Conns, f \in Frames :
         (~HasSession(c) /\ f.action # "authenticate" /\ FrameStep(c, f))
            => /\ wsLast'.invoked = "none"
               /\ UNCHANGED <<projections, authenticated_client, minecraft_servers>>
               /\ (~DeadlineDone(c) => conn'[c].st = "open")]_vars

\* C3 witness: a player-status-check was dropped on an open connection without
\* a session while another connection holds a session
C3_Witness ==
    /\ wsLast.outcome = "unauthenticated"
    /\ wsLast.action = "player-status-check"
    /\ conn[wsLast.conn].st = "open"
    /\ online_players = {}
    /\ \E d \in Conns : d # wsLast.conn /\ HasSession(d)

\* C4: a connection that has not authenticated within AuthDeadline seconds of
\* connecting does not stay open (it is closed with the timeout reason, also
\* when it never sends a frame), and a connection that authenticated is never
\* closed with the timeout reason.
C4_AuthDeadline ==
    \A c \in Conns :
        /\ (conn[c].st = "open" /\ ~conn[c].auth_complete)
              => wsNow <= conn[c].connected_at + AuthDeadline
        /\ conn[c].auth_complete => conn[c].close_reason # AuthTimeout

\* C5: an authenticate frame with the configured password and server list L,
\* read while the connection is accepted and its deadline has not fired,
\* leaves a session keyed by the connection carrying L, every name of L and
\* "all" among the server names, the deadline timer cancelled and the
\* connection open and authenticated.
C5_AuthenticationSuccess ==
    [][\A c \in Conns, f \in Frames :
         (/\ f.action = "authenticate" /\ f.json_ok /\ f.schema_ok /\ f.pw_ok
          /\ (conn[c].auth_complete \/ ~DeadlineDone(c))
          /\ FrameStep(c, f))
            => /\ HasSession(c)'
               /\ SessionOf(c)'.server_list = f.server_list
               /\ Range(f.server_list) \cup {"all"} \subseteq Range(minecraft_servers')
               /\ conn'[c].deadline_cancelled
               /\ conn'[c].auth_complete
               /\ conn'[c].st = "open"]_vars

\* C5 witness: the end-to-end scenario, server list [lobby] gives {lobby, all}
C5_Witness ==
    /\ wsLast.outcome = "authenticated"
    /\ HasSession(wsLast.conn)
    /\ minecraft_servers = <<"lobby", "all">>

\* C6: a connection from a disallowed address is closed with an explicit
\* reason before any frame is read, leaving sessions and server names as they
\* were; an authenticate frame with a wrong password closes the connection
\* with an explicit reason and adds no session; a connection whose handler has
\* ended holds no session.
C6_AuthenticationFailures ==
    [][/\ \A c \in Conns :
            (wsLast'.op = "connect" /\ Connect(c, FALSE))
               => /\ conn'[c].st = "closed"
                  /\ conn'[c].close_reason = IpRejected
                  /\ UNCHANGED <<authenticated_client, minecraft_servers>>
       /\ \A c \in Conns, f \in Frames :
            (/\ f.action = "authenticate" /\ f.json_ok /\ f.schema_ok /\ ~f.pw_ok
             /\ (conn[c].auth_complete \/ ~DeadlineDone(c))
             /\ FrameStep(c, f))
               => /\ conn'[c].st = "closing"
                  /\ conn'[c].close_reason = AuthFailed
                  /\ UNCHANGED <<authenticated_client, minecraft_servers>>
       /\ \A c \in Conns :
            (conn'[c].st = "closed" \/ conn'[c].close_reason = IpRejected)
               => ~HasSession(c)']_vars

\* C6 witness: one connection was rejected for its address, the other sent a
\* wrong password and holds no session
C6_Witness ==
    /\ wsLast.outcome = "auth-failed"
    /\ ~HasSession(wsLast.conn)
    /\ conn[wsLast.conn].close_reason = AuthFailed
    /\ \E d \in Conns : conn[d].close_reason = IpRejected /\ conn[d].st = "closed"

\* C7: when the handler of an accepted connection has ended (peer close,
\* transport error, bad password, authentication timeout) the session store
\* holds no session of that connection and the server-name state is empty.
C7_TeardownAlwaysRuns ==
    /\ wsLast.op = "teardown"
          => ~HasSession(wsLast.conn) /\ minecraft_servers = <<>>
    /\ \A c \in Conns :
          (conn[c].st = "closed" /\ conn[c].close_reason # IpRejected) => ~HasSession(c)

\* C7 witness: the handler of an authenticated connection has just ended
C7_Witness ==
    /\ wsLast.op = "teardown"
    /\ conn[wsLast.conn].auth_complete
    /\ conn[wsLast.conn].st = "closed"

BadFrame(f) ==
    \/ ~f.json_ok
    \/ f.action = ""
    \/ f.action \notin Registered
    \/ ~f.schema_ok
    \/ f.raises

\* C8: on an authenticated connection a frame that is not JSON, has no or an
\* unregistered action, or fails its schema is skipped without invoking a
\* handler, and an exception of a handler is caught; the connection stays
\* open for its next frame and sessions, server names and projections are
\* untouched.
C8_BadFrameSurvives ==
    [][\A c \in Conns, f \in Frames :
         (HasSession(c) /\ BadFrame(f) /\ FrameStep(c, f))
            => /\ conn'[c].st = "open"
               /\ (~f.raises => wsLast'.invoked = "none")
               /\ UNCHANGED <<projections, authenticated_client, minecraft_servers>>]_vars

\* C8 witness: after a skipped frame the same connection had a later frame handled
C8_Witness ==
    /\ wsLast.op = "frame"
    /\ wsLast.outcome = "handled"
    /\ conn[wsLast.conn].bad_seen
    /\ conn[wsLast.conn].st = "open"

(***************************************************************************)
(* Scheduler properties                                                    *)
(***************************************************************************)

LiveTask(ts, knd, id, due) ==
    \E t \in ts : t.state = "armed" /\ t.kind = knd /\ t.id = id /\ t.due = due

\* C9: duration chaining.  A timeout longer than MAX_TIMEOUT_DURATION applies
\* exactly one maximum chunk at once, persists refresh_at = now + maximum and arms
\* a refresh task for that moment.  A refresh task that runs at its due time
\* applies another maximum chunk, advances refresh_at and arms another refresh
\* task while more than the maximum remains until expires_at; otherwise it
\* applies exactly the remaining time, clears refresh_at and arms the final
\* task for expires_at, and that task deletes the record.
C9_DurationChaining ==
    [][ /\ (punLast'.op = "apply" /\ punLast'.kind = "extended" /\ punLast'.rest = "ok")
           => LET r == RecById(temp_actions', punLast'.id)
              IN  /\ punLast'.chunk = MAX_TIMEOUT_DURATION
                  /\ disabled_until'[r.user_id] = pnow + MAX_TIMEOUT_DURATION
                  /\ r.refresh_at = pnow + MAX_TIMEOUT_DURATION
                  /\ LiveTask(ptasks', "refresh", r.id, pnow + MAX_TIMEOUT_DURATION)
        /\ (/\ punLast'.op = "fire" /\ punLast'.kind = "refresh"
            /\ punLast'.rest = "ok" /\ punLast'.late = 0)
           => LET r == RecById(temp_actions', punLast'.id)
                  left == r.expires_at - pnow
              IN  IF left > MAX_TIMEOUT_DURATION
                  THEN /\ punLast'.chunk = MAX_TIMEOUT_DURATION
                       /\ disabled_until'[r.user_id] = pnow + MAX_TIMEOUT_DURATION
                       /\ r.refresh_at = pnow + MAX_TIMEOUT_DURATION
                       /\ LiveTask(ptasks', "refresh", r.id, pnow + MAX_TIMEOUT_DURATION)
                  ELSE /\ punLast'.chunk = left
                       /\ disabled_until'[r.user_id] = r.expires_at
                       /\ r.refresh_at = NoTime
                       /\ LiveTask(ptasks', "final", r.id, r.expires_at)
        /\ (punLast'.op = "fire" /\ punLast'.kind = "final")
           => ~HasRec(temp_actions', punLast'.id)
      ]_vars

\* the second chunk of a timeout of 3,000,000 s applied at time 0 has just been set
C9_Witness ==
    /\ pnow = MAX_TIMEOUT_DURATION
    /\ punLast.op = "fire" /\ punLast.kind = "refresh" /\ punLast.late = 0
    /\ punLast.chunk = 580800
    /\ \E r \in temp_actions :
          /\ r.id = punLast.id /\ r.expires_at = 3000000 /\ r.refresh_at = NoTime
          /\ LiveTask(ptasks, "final", r.id, 3000000)

\* C10: when startup recovery has run without a failing call, every record that
\* expires in the future has an armed task stored under its key.
C10_StartupRearm ==
    (punLast.op = "startup" /\ punLast.rest = "ok")
    => \A r \in temp_actions :
          r.expires_at > pnow
          => \E t \in ptasks :
                /\ t.tid = registry[<<r.user_id, r.punishment_type>>]
                /\ t.state = "armed"

\* how often the last recovery pass made call ev for record id
Calls(ev, id) ==
    Cardinality({i \in 1 .. Len(punLast.log) : punLast.log[i] = Ev(ev, id)})

\* the recovery pass that has just run, and a record it found expired
RecoveredExpired(r) ==
    /\ punLast'.op = "startup"
    /\ r \in temp_actions
    /\ r.expires_at <= pnow

C12_OneLiveTaskPerKey ==
    \A t \in ptasks :
        t.state = "armed" => registry[<<t.user, t.ptype>>] = t.tid

\* the task objects of ts once the handle stored under key has been cancelled
StoredCancelled(ts, key, after) ==
    \A x \in ts :
        IF x.tid = registry[key] THEN [x EXCEPT !.state = "cancelled"] \in after
        ELSE x \in after

\* the entries and the task objects of every other key are as before
OtherKeysKept(key, reg, after) ==
    /\ \A k \in PKeys \ {key} : reg[k] = registry[k]
    /\ \A x \in ptasks : <<x.user, x.ptype>> # key => x \in after

\* C13: in every state of the scheduler and for every key, add_or_refresh_task
\* cancels the stored handle and stores the new one, remove_task deletes the
\* entry and cancels nothing, cancel_task cancels the stored handle and deletes
\* the entry, remove_task and cancel_task of an absent key return False and
\* change nothing, and no operation changes the entry or a task of another key.
C13_RegistryFrame ==
    \A key \in PKeys :
        LET t == NewTask(ptasks, key[1], key[2], "refresh", "minecraft", pnow, 0, 0, 0)
            add == AddOrRefreshTask(ptasks, registry, key, t)
            can == CancelTask(ptasks, registry, key)
            rem == RemoveTask(registry, key)
        IN  /\ add.reg[key] = t.tid
            /\ t \in add.ts
            /\ t.tid \notin TaskIds(ptasks)
            /\ Cardinality(add.ts) = Cardinality(ptasks) + 1
            /\ StoredCancelled(ptasks, key, add.ts)
            /\ OtherKeysKept(key, add.reg, add.ts)
            /\ rem[key] = NoTid
            /\ OtherKeysKept(key, rem, ptasks)
            /\ RemoveTaskResult(registry, key) = HasTask(registry, key)
            /\ ~HasTask(registry, key) => rem = registry
            /\ can.result = HasTask(registry, key)
            /\ can.reg[key] = NoTid
            /\ Cardinality(can.ts) = Cardinality(ptasks)
            /\ StoredCancelled(ptasks, key, can.ts)
            /\ OtherKeysKept(key, can.reg, can.ts)
            /\ ~HasTask(registry, key) => can.reg = registry /\ can.ts = ptasks

\* both keys hold an armed handle, so each operation has a handle to cancel or
\* delete and another key's handle to leave alone
C13_Witness ==
    /\ \A key \in PKeys :
           \E x \in ptasks : x.tid = registry[key] /\ x.state = "armed"
                             /\ <<x.user, x.ptype>> = key
    /\ punLast.op = "apply"

\* the kinds of task that revert a punishment when they run
RevertKinds == {"tempban", "ban_expiry", "timeout_expiry"}

\* no task is armed for record id
NoRetry(ts, id) == \A t \in ts : t.state = "armed" => t.id # id

\* C14: a revert run by a task that reports "not found" deletes the record; one
\* that fails otherwise leaves the table as it was and arms no task for the
\* record; the startup revert of an expired ban that is not in force either
\* deletes the record or leaves it unchanged, and arms nothing.
C14_RevertFailure ==
    [][/\ punLast'.op = "fire" /\ punLast'.kind \in RevertKinds =>
            /\ punLast'.rest = "not_found" => ~HasRec(temp_actions', punLast'.id)
            /\ punLast'.rest = "error" =>
                   temp_actions' = temp_actions /\ NoRetry(ptasks', punLast'.id)
       /\ \A r \in temp_actions :
              RecoveredExpired(r) /\ r.punishment_type = "ban" /\ ~banned[r.user_id] =>
                  /\ HasRec(temp_actions', r.id) => r \in temp_actions'
                  /\ Calls("delete", r.id)' = 0 <=> HasRec(temp_actions', r.id)
                  /\ NoRetry(ptasks', r.id)]_vars

\* nothing of the punishment of type ty of user u is left: no record, no armed
\* task, no registry entry
ScheduleInvalidated(recs, ts, reg, u, ty) ==
    /\ \A r \in recs : ~(r.user_id = u /\ r.punishment_type = ty)
    /\ \A t \in ts : t.state = "armed" => <<t.user, t.ptype>> # <<u, ty>>
    /\ ~HasTask(reg, <<u, ty>>)

\* C15: once a ban has been lifted by hand (on_ban_delete) or a timeout has been
\* lifted by hand (untimeout that succeeded), the user has no record of that
\* type, no armed task and no registry entry for it.
C15_ExternalReversal ==
    [][/\ punLast'.op = "unban_event" =>
              ScheduleInvalidated(temp_actions', ptasks', registry', punLast'.user, "ban")
       /\ punLast'.op = "untimeout" /\ punLast'.rest = "ok" =>
              ScheduleInvalidated(temp_actions', ptasks', registry', punLast'.user,
                                  "timeout")]_vars

\* C16: a key whose last stamp is a successful extend(k, e) made at time t
\* leaves the container only by an explicit removal or at a time that is at
\* least t + TTL + e; an extend of an absent key reports failure and changes
\* neither the entries, the heap nor the sequence counter.
C16_ExtendKeeps ==
    [][/\ \A k \in Keys :
            (lastOp[k] = "extend" /\ items[k] # Absent /\ items'[k] = Absent)
               => \/ ExplicitRemoval(k)
                  \/ \E e \in ExtraTimes : e > 0 /\ now >= items[k] + TTL + e
       /\ \A k \in Keys, e \in ExtraTimes :
            (items[k] = Absent /\ Extend(k, e))
               => ~obs'.result /\ UNCHANGED <<items, vals, order, heap, seqCtr>>]_vars

\* C17: with every operation atomic under the lock, a round of the sweep worker
\* deletes only keys whose recorded insertion time is at least TTL old, an
\* insert leaves its key present and stamped with the current time, and the
\* round that runs right after an insert keeps the inserted key.
C17_SweepInterleaving ==
    [][/\ WorkerSweep =>
            \A k \in Keys :
                (items[k] # Absent /\ items'[k] = Absent) => items[k] + TTL <= now
       /\ \A k \in Keys, v \in Vals \cup {NoVal} : Add(k, v) => items'[k] = now
       /\ (obs.op = "add" /\ WorkerSweep) => items'[obs.key] = now]_vars

\* eager mode at the first expiry instant: k1, inserted at time 0, has been
\* inserted again at this instant and the worker has made its round at this
\* instant too (in either order); the entry of time 0 is popped, k1 is present
C17_Witness ==
    /\ ~lazy
    /\ now = TTL
    /\ nextSweep = now + CheckInterval
    /\ expiredCount = 1
    /\ items["k1"] = TTL
    /\ lastOp["k1"] = "add"
    /\ heap = {<<TTL + TTL, 2, "k1">>}

\* what contains(k) answers in a container with these entries and this heap
ContainsAt(its, ord, h, seq, cnt, cur, k) ==
    CheckExpirationIfLazy(its, ord, h, seq, cnt, cur).items[k] # Absent

\* C18: in the steps that call _rebuild_expiration_heap (remove, extend) the
\* answer of contains(k) is the same for the heap, sequence counter and expired
\* count the rebuild finds as for the ones it leaves, for every key.
C18_RebuildFrame ==
    [][/\ \A ks \in SUBSET Keys :
            Remove(ks) =>
                \A k \in Keys :
                    ContainsAt(items', order', heap, seqCtr, expiredCount, now, k)
                    = ContainsAt(items', order', heap', seqCtr', expiredCount', now, k)
       /\ \A j \in Keys, e \in ExtraTimes :
            (Extend(j, e) /\ obs'.result) =>
                \A k \in Keys :
                    ContainsAt(items', order', heap \cup {<<now + TTL + e, seqCtr + 1, j>>},
                               seqCtr + 1, expiredCount, now, k)
                    = ContainsAt(items', order', heap', seqCtr', expiredCount', now, k)]_vars

(***************************************************************************)
(* Properties of the outbound calls                                        *)
(***************************************************************************)

\* C19: send_message never raises; without a session it returns False and
\* writes nothing; when the write fails (closed connection, any other error)
\* it returns False; it returns True only when the frame has been written to
\* the first session of the table.
C19_SendMessageTotal ==
    outLast.op = "send_message" =>
        /\ ~outLast.raised
        /\ Len(authenticated_client) = 0 => ~outLast.result /\ outLast.wrote = "none"
        /\ outLast.outcome \in {"closed", "error", "not-serialisable"} => ~outLast.result
        /\ outLast.result <=> /\ Len(authenticated_client) > 0
                              /\ outLast.outcome = "ok"
                              /\ outLast.wrote = authenticated_client[1].id

\* a send_message that found the connection of its session closed: the bridge
\* has closed c1 itself and the teardown has not run yet
C19_Witness ==
    /\ outLast.op = "send_message"
    /\ outLast.outcome = "closed"
    /\ ~outLast.result
    /\ outLast.to = "c1"
    /\ conn["c1"].st = "closing"

\* C20: the result of send_global_message, send_server_message,
\* send_player_message and dispatch_command is True only if the frame has been
\* written, and False on a closed connection, a transport error or no session.
C20_ResultReflectsWrite ==
    outLast.op \in {"send_global_message", "send_server_message", "send_player_message",
                    "dispatch_command"} =>
        /\ outLast.result => outLast.wrote # "none" /\ outLast.outcome = "ok"
        /\ outLast.outcome \in {"closed", "error", "none"} => ~outLast.result

\* the calls that build a message with a server field
ServerAddressed == {"send_server_message", "dispatch_command", "command_executed"}

\* some session of the table advertised this name
Advertised(server) ==
    \E i \in 1 .. Len(authenticated_client) :
        \E j \in 1 .. Len(authenticated_client[i].server_list) :
            authenticated_client[i].server_list[j] = server

\* the call was stopped before send_message was reached
Rejected == outLast.raised \/ outLast.outcome = "not-sent"

\* C21: while a session is authenticated, a server-addressed outbound call
\* naming all, bungeecord or velocity is not rejected; one naming another
\* server is rejected iff no session of the table advertised the name; a
\* rejected call writes nothing.
C21_ServerNameValidation ==
    (outLast.op \in ServerAddressed /\ Len(authenticated_client) > 0) =>
        /\ outLast.server \in ReservedServers => ~Rejected
        /\ outLast.server \notin ReservedServers => (Rejected <=> ~Advertised(outLast.server))
        /\ Rejected => outLast.wrote = "none"

\* the expected failure modes of a call: no authenticated peer, an offline
\* player, a server name that no peer serves
ExpectedFailure ==
    \/ Len(authenticated_client) = 0
    \/ outLast.op = "send_player_message" /\ "Steve" \notin online_players
    \/ /\ outLast.op \in {"send_server_message", "dispatch_command"}
       /\ outLast.server \notin ReservedServers
       /\ ~Advertised(outLast.server)

\* C22: a call of the outbound command API that meets an expected failure mode
\* returns False and raises nothing.
C22_FailureIsAValue ==
    (outLast.op \in {"send_player_message", "send_global_message", "send_server_message",
                     "dispatch_command"} /\ ExpectedFailure)
        => ~outLast.raised /\ ~outLast.result

(***************************************************************************)
(* Properties of fire-and-poll                                             *)
(***************************************************************************)

\* the calls that sent the request, slept and read the container
Polled == {x \in Callers : calls[x].st = "done" /\ calls[x].polled}

\* C23: a fetch_player_status that went to the peer wrote one request when the
\* write succeeded, and returns whether the container held the identifier at
\* its read after the fixed delay: true only when the reply has been handled
\* (the container then holds the username and the uuid), false only when no
\* reply had been handled by then.
C23_FireAndPoll ==
    /\ \A x \in Callers :
          /\ calls[x].polled => calls[x].wake = calls[x].start + ResponseTimeout
          /\ calls[x].requests <= 1
          /\ calls[x].st = "waiting" => wsNow <= calls[x].wake
    /\ \A x \in Polled :
          /\ calls[x].result => {"Steve", "u-1"} \subseteq online_players
          /\ ~calls[x].result => ("Steve" \notin online_players \/ x \in late)

\* caller a sent the request at time 0, the reply was handled within the
\* delay, and its read at time 1 returned true
C23_Witness ==
    /\ calls["a"].st = "done"
    /\ calls["a"].polled
    /\ calls["a"].requests = 1
    /\ calls["a"].start = 0
    /\ calls["a"].result
    /\ wsNow = ResponseTimeout
    /\ wsLast.action = "player-status-check"

\* C24: two polling calls for the same key whose delay windows overlapped have
\* returned the same value.
C24_SameValue ==
    (Polled = Callers /\ \A x \in Callers : calls[x].overlapped)
        => calls["a"].result = calls["b"].result

\* C24 as the code has it: the two calls return the same value unless a reply
\* was handled between the read of the one and the read of the other; then the
\* earlier read returned false and the later one true.
C24_SameValueUnlessReplyBetween ==
    (Polled = Callers /\ \A x \in Callers : calls[x].overlapped)
        => \/ calls["a"].result = calls["b"].result
           \/ \E x, y \in Callers :
                 /\ x \in late /\ y \notin late
                 /\ ~calls[x].result /\ calls[y].result

\* both calls slept over the same window and the reply was handled between
\* their two reads
C24_Witness ==
    /\ Polled = Callers
    /\ \A x \in Callers : calls[x].overlapped /\ calls[x].start = 0
    /\ ~calls["a"].result
    /\ calls["b"].result
    /\ late = {"a"}

(***************************************************************************)
(* Further properties of the containers                                    *)
(***************************************************************************)

\* the heap has an entry of k that is due no earlier than TTL after its stamp
Scheduled(k) == \E e \in heap : e[3] = k /\ e[1] >= items[k] + TTL

\* C25: no immortal entries - every present key has at least one heap entry
\* whose expiry is at least its insertion time plus TTL, so that a later sweep
\* can still take it out.
C25_NoImmortalEntries ==
    \A k \in Keys : items[k] # Absent => Scheduled(k)

(***************************************************************************)
(* Further properties of the listener                                      *)
(***************************************************************************)

\* C26: whenever the session table holds an authenticated session, the
\* server-name state contains all and every name a session of the table
\* advertised.
C26_ServerNamesOfLiveSessions ==
    Len(authenticated_client) > 0 =>
        /\ ContainsServer("all")
        /\ \A server \in {"lobby", "survival"} : Advertised(server) => ContainsServer(server)

(***************************************************************************)
(* Further properties of the scheduler                                     *)
(***************************************************************************)

\* the persisted records of one user and punishment type
RecordsOf(u, ty) == {r \in temp_actions : r.user_id = u /\ r.punishment_type = ty}

\* C27: the table of temporary actions holds at most one record per
\* (user_id, punishment_type).
C27_OneRecordPerKey ==
    \A k \in PKeys : Cardinality(RecordsOf(k[1], k[2])) <= 1

\* the step is the run of a ban-expiry or timeout-expiry task for key k that
\* deletes its record
ExpiryTaskDeletes(k) ==
    /\ punLast'.op = "fire"
    /\ punLast'.user = k[1]
    /\ punLast'.kind = (IF k[2] = "ban" THEN "ban_expiry" ELSE "timeout_expiry")
    /\ HasRec(temp_actions, punLast'.id)
    /\ ~HasRec(temp_actions', punLast'.id)

\* C28: when a ban-expiry or timeout-expiry task has run and deleted its
\* record, on success and on "not found" alike, the registry holds no entry
\* for the key of the task.
C28_RegistryFollowsRecord ==
    [][\A k \in PKeys : ExpiryTaskDeletes(k) => registry'[k] = NoTid]_vars

(***************************************************************************)
(* The heap rebuild and the expiry of extended keys                        *)
(***************************************************************************)

\* the expiries of the heap entries of k whose pop deletes k
DeletingExpiries(its, h, k) == {e[1] : e \in {f \in h : f[3] = k /\ f[1] >= its[k] + TTL}}

\* k is taken out by no sweep: no expiry time, written like a missing timestamp
NeverExpires == Absent

\* the earliest time at which a sweep deletes k
ExpiresAt(its, h, k) ==
    LET due == DeletingExpiries(its, h, k)
    IN  IF due = {} THEN NeverExpires ELSE CHOOSE t \in due : \A u \in due : t <= u

\* C29: in the steps that call _rebuild_expiration_heap (remove, extend), every
\* key that is present and was last stamped by extend expires at the same time
\* with the heap the rebuild leaves as with the heap it found.
C29_RebuildKeepsExpiry ==
    [][/\ \A ks \in SUBSET Keys :
            Remove(ks) =>
                \A k \in Keys :
                    (items'[k] # Absent /\ lastOp'[k] = "extend") =>
                        ExpiresAt(items', heap', k) = ExpiresAt(items', heap, k)
       /\ \A j \in Keys, e \in ExtraTimes :
            (Extend(j, e) /\ obs'.result) =>
                \A k \in Keys :
                    (items'[k] # Absent /\ lastOp'[k] = "extend") =>
                        ExpiresAt(items', heap', k)
                        = ExpiresAt(items', heap \cup {<<now + TTL + e, seqCtr + 1, j>>}, k)]_vars

(***************************************************************************)
(* The length of the timeout chunks                                        *)
(***************************************************************************)

\* the records for which the startup recovery has just applied a chunk
Chunked ==
    {r \in temp_actions :
        \E i \in 1 .. Len(punLast.log) : punLast.log[i] = Ev("chunk", r.id)}

\* C30: a timeout chunk that has just been applied (by the command, by a
\* refresh task or by the startup recovery) ends at most MAX_TIMEOUT_DURATION
\* after the present moment and not later than expires_at of its record.
C30_ChunkWithinBounds ==
    /\ (punLast.op \in {"apply", "fire"} /\ punLast.chunk > 0) =>
          /\ punLast.chunk <= MAX_TIMEOUT_DURATION
          /\ disabled_until[punLast.user] = pnow + punLast.chunk
          /\ punLast.id # 0 =>
                 disabled_until[punLast.user] <= RecById(temp_actions, punLast.id).expires_at
    /\ punLast.op = "startup" =>
          \A r \in Chunked :
              /\ disabled_until[r.user_id] - pnow <= MAX_TIMEOUT_DURATION
              /\ \E q \in Chunked :
                    q.user_id = r.user_id /\ disabled_until[r.user_id] <= q.expires_at

====
